---------------------------- MODULE Spec2Model ----------------------------
(***************************************************************************)
(* Model of the identifier-normalization cache / batched lookup            *)
(* (Common/utils.py, NodeNormUtils.normalize_node_data) and of the         *)
(* triple-to-edge grouping engine (UberGraph/src/loadUG.py,                *)
(* UGLoader.write_edge_data).                                              *)
(*                                                                         *)
(* Python values are modelled as follows:                                  *)
(*   dict            a function whose DOMAIN is the key set                *)
(*   None            the record None                                       *)
(*   list            a sequence                                            *)
(*   str (id, name)  a TLA+ string; '' is ""                               *)
(*   str built by join / f-string: a sequence of tokens                    *)
(***************************************************************************)
EXTENDS Integers, Sequences, FiniteSets, TLC

VARIABLES
    pc,                 \* position of the running call
    node_list,          \* the caller's list of node fragments (mutated in place)
    edge_list,          \* the caller's list of edge-relation fragments
    cached_node_norms,  \* the dict the local name cached_node_norms is bound to
    aliased,            \* TRUE while that dict is still the caller's object
    caller_cache,       \* the caller-owned dict (UGLoader.cached_node_norms)
    to_normalize,       \* list(tmp_normalize)
    start_index,        \* chunk loop lower boundary
    calls,              \* number of normalize_node_data calls started
    node_list0,         \* history: node_list as it was at call time
    keys0,              \* history: keys of the cache at call time
    requests,           \* history: the requests of this call and their outcomes
    sent_before,        \* history: ids sent to the service by earlier calls
    output_mode,        \* 'json' or 'tsv'
    sorted_nodes,       \* write_edge_data: sorted(node_list, key=grp)
    node_idx,           \* write_edge_data: scan index (0-based)
    cur_grp_name,       \* write_edge_data: current group name
    first,              \* write_edge_data: first-iteration flag
    final_edge_set,     \* UGLoader.final_edge_set
    total_edges,        \* UGLoader.total_edges
    emitted,            \* history: one entry per final_edge_set.add, in order
    final_node_set,     \* UGLoader.final_node_set
    total_nodes,        \* UGLoader.total_nodes
    answers,            \* the entry the service returns for each id in this run
    chunk_log,          \* history: the chunks of triples processed so far
    file_log,           \* history: the chunks of the input file being processed
    used_cache,         \* history: the dict the last rewrite step read
    written,            \* history: what was written out for each finished file
    t_ids,              \* concurrent calls: the ids of each call's node list
    t_pc,               \* concurrent calls: start_index of each call (-1 before
                        \* its first loop)
    t_cache,            \* concurrent calls: the dict each call's local name is bound to
    t_aliased,          \* concurrent calls: TRUE while that dict is the shared one
    once,               \* history: the list a first application produced
    compound_records,   \* FDBLoader.parse_data: what foodb.lookup_food() returned
    record_counter,     \* FDBLoader.parse_data: records read
    skipped_record_counter, \* FDBLoader.parse_data: records that were not usable
    compound_list,      \* FDBLoader.parse_data: the nodes of the current food
    food_id,            \* FDBLoader.parse_data: the current food id
    final_node_list,    \* FDBLoader.final_node_list
    final_edge_list,    \* FDBLoader.final_edge_list
    load_metadata,      \* FDBLoader.parse_data: the dict it returns
    attempts,           \* GetData.get_goa_files: attempts
    target_count,       \* GetData.get_goa_files: len(file_list)
    actual_count,       \* GetData.get_goa_files: what the last pull returned
    on_disk,            \* number of files of file_list that hold data on disk
    partial,            \* the files on disk an interrupted transfer left short
    pulls               \* history: number of pull_via_ftp calls made

normVars == <<cached_node_norms, aliased, caller_cache, to_normalize,
              start_index, calls, node_list0, keys0, requests, sent_before>>
edgeVars == <<edge_list, output_mode, sorted_nodes, node_idx, cur_grp_name,
              first, final_edge_set, total_edges, emitted>>
loadVars == <<final_node_set, total_nodes, answers, chunk_log, file_log,
              used_cache, written>>
concVars == <<t_ids, t_pc, t_cache, t_aliased>>

\* the list a first application of normalize_node_data produced, kept while
\* the call is applied to that list a second time
histVars == <<once>>
fdbVars == <<compound_records, record_counter, skipped_record_counter,
             compound_list, food_id, final_node_list, final_edge_list,
             load_metadata>>
goaVars == <<attempts, target_count, actual_count, on_disk, partial, pulls>>
vars == <<pc, node_list, normVars, edgeVars, loadVars, concVars, histVars,
          fdbVars, goaVars>>

-----------------------------------------------------------------------------
(* Bounds of the model *)

\* longest node list handed to normalize_node_data
MaxNodes == 3
\* number of normalize_node_data calls of one run
MaxCalls == 2
\* chunk_size of normalize_node_data, scaled down from the source's 1000
\* (utils.py line 129) so that a call over a few ids spans several chunks
ChunkSize == 2

-----------------------------------------------------------------------------
(* Generic helpers for Python lists, sets and dicts *)

Range(s) == {s[i] : i \in DOMAIN s}

\* the possible results of list(S) for a set S: any order of its elements
Perms(S) == {s \in [1..Cardinality(S) -> S] : Range(s) = S}

SeqsUpTo(S, n) == UNION {[1..k -> S] : k \in 0..n}

\* Python's None
None == [none |-> TRUE]

\* sep.join(parts), as a sequence of tokens
RECURSIVE Join(_, _)
Join(parts, sep) ==
    IF Len(parts) = 0 THEN <<>>
    ELSE IF Len(parts) = 1 THEN <<parts[1]>>
    ELSE <<parts[1], sep>> \o Join(Tail(parts), sep)

-----------------------------------------------------------------------------
(* Identifiers, node fragments and the normalization service *)

\* raw identifiers found in the source data
Ids == {"A", "B", "C"}

\* group keys of one chunk of fragments
Groups == {"G", "H", "K"}

\* a node fragment as parse_data_file creates it: name is the id, category and
\* equivalent_identifiers are the empty string
NewNode(grp, num, id) ==
    [grp |-> grp, node_num |-> num, id |-> id, name |-> id,
     category |-> <<>>, equivalent_identifiers |-> <<>>]

\* The record the service holds for an id. Every optional member of the
\* payload is absent in at least one record: B has no label, type or
\* equivalent_identifiers, C has an empty equivalent_identifiers list, and A
\* and B share one canonical identifier. A canonical identifier that is
\* submitted is answered with the record of its own clique.
ServiceRecord(id) ==
    CASE id \in {"A", "N1"} ->
           [id |-> [identifier |-> "N1", label |-> "LA"],
            type |-> <<"c1", "c2">>,
            equivalent_identifiers |->
                <<[identifier |-> "N1"], [identifier |-> "A"]>>]
      [] id = "B" ->
           [id |-> [identifier |-> "N1"]]
      [] OTHER ->
           [id |-> [identifier |-> "N2", label |-> "LC"],
            type |-> <<"c1">>,
            equivalent_identifiers |-> <<>>]

\* what a status-200 payload can hold for a submitted id: null or its record
Answers(id) == {None, ServiceRecord(id)}

\* the well-formed status-200 payloads for a chunk: one entry per submitted id
Payloads(chunk) ==
    {rvs \in [Range(chunk) -> UNION {Answers(id) : id \in Range(chunk)}] :
        \A id \in Range(chunk) : rvs[id] \in Answers(id)}

\* the caches a caller may pass in: empty, or seeded from an earlier run
SeedCaches ==
    UNION {{c \in [K -> UNION {Answers(id) : id \in Ids}] :
               \A id \in K : c[id] \in Answers(id)} : K \in SUBSET {"A", "C"}}

-----------------------------------------------------------------------------
(* NodeNormUtils.normalize_node_data: the pure parts *)

\* mutant of TmpNormalize: the cache is not consulted
TmpNormalize_NoCacheCheck(nl, cache) ==
    {nl[i].id : i \in DOMAIN nl}

\* tmp_normalize: the ids of node_list that are not keys of the cache
TmpNormalize(nl, cache) ==
    {nl[i].id : i \in DOMAIN nl} \ DOMAIN cache

\* end_index of the slice that starts at start (0-based, exclusive end)
EndIndex(start, last) ==
    IF start + ChunkSize >= last THEN last ELSE start + ChunkSize

\* mutant of DataChunk: a chunk after the first starts one id early
DataChunk_Overlap(list, start) ==
    SubSeq(list, IF start > 0 THEN start ELSE 1, EndIndex(start, Len(list)))

\* data_chunk = to_normalize[start_index: end_index]
DataChunk(list, start) ==
    SubSeq(list, start + 1, EndIndex(start, Len(list)))

\* merged = {**cached_node_norms, **rvs}
Merged(cache, rvs) ==
    [k \in DOMAIN cache \cup DOMAIN rvs |->
        IF k \in DOMAIN rvs THEN rvs[k] ELSE cache[k]]

\* mutant of MarkUnresolved: only the first id of the chunk is marked
MarkUnresolved_FirstOnly(cache, chunk) ==
    [k \in DOMAIN cache \cup {chunk[1]} |->
        IF k = chunk[1] THEN None ELSE cache[k]]

\* for item in data_chunk: cached_node_norms.update({item: None})
MarkUnresolved(cache, chunk) ==
    [k \in DOMAIN cache \cup Range(chunk) |->
        IF k \in Range(chunk) THEN None ELSE cache[k]]

\* mutant of RewriteNode: the label is not taken over
RewriteNode_KeepsName(node, cache) ==
    LET rec == cache[node.id] IN
    IF rec = None THEN node
    ELSE [node EXCEPT
            !.category = IF "type" \in DOMAIN rec
                         THEN Join(rec.type, "|") ELSE @,
            !.equivalent_identifiers =
                IF "equivalent_identifiers" \in DOMAIN rec
                   /\ Len(rec.equivalent_identifiers) > 0
                THEN Join([i \in DOMAIN rec.equivalent_identifiers |->
                              rec.equivalent_identifiers[i].identifier], "|")
                ELSE @,
            !.id = rec.id.identifier]

\* the body of the rewrite loop for one fragment whose id is a key of the cache
RewriteNode(node, cache) ==
    LET rec == cache[node.id] IN
    IF rec = None THEN node
    ELSE [node EXCEPT
            !.name = IF "label" \in DOMAIN rec.id THEN rec.id.label ELSE @,
            !.category = IF "type" \in DOMAIN rec
                         THEN Join(rec.type, "|") ELSE @,
            !.equivalent_identifiers =
                IF "equivalent_identifiers" \in DOMAIN rec
                   /\ Len(rec.equivalent_identifiers) > 0
                THEN Join([i \in DOMAIN rec.equivalent_identifiers |->
                              rec.equivalent_identifiers[i].identifier], "|")
                ELSE @,
            !.id = rec.id.identifier]

\* mutant of KeyErrorAt: an id that maps to None raises as well
KeyErrorAt_NoneToo(nl, cache) ==
    {i \in DOMAIN nl :
        nl[i].id \notin DOMAIN cache \/ cache[nl[i].id] = None}

\* the indices at which cached_node_norms[rv['id']] raises KeyError
KeyErrorAt(nl, cache) == {i \in DOMAIN nl : nl[i].id \notin DOMAIN cache}

\* node_list after the rewrite loop ran over the indices below stop
RewriteLoop(nl, cache, stop) ==
    [i \in DOMAIN nl |-> IF i < stop THEN RewriteNode(nl[i], cache) ELSE nl[i]]

-----------------------------------------------------------------------------
(* NodeNormUtils.normalize_node_data: the call as a state machine *)

\* the values the variables of the file loop hold while no file is loaded
LoadIdle ==
    /\ final_node_set = {}
    /\ total_nodes = 0
    /\ answers = <<>>
    /\ chunk_log = <<>>
    /\ file_log = <<>>
    /\ used_cache = <<>>
    /\ written = <<>>

\* the values the variables of the concurrent calls hold while none runs
ConcIdle ==
    /\ t_ids = <<>>
    /\ t_pc = <<>>
    /\ t_cache = <<>>
    /\ t_aliased = <<>>

\* the values the variables of FDBLoader.parse_data hold while it does not
\* run
FdbIdle ==
    /\ compound_records = None
    /\ record_counter = 0
    /\ skipped_record_counter = 0
    /\ compound_list = <<>>
    /\ food_id = None
    /\ final_node_list = <<>>
    /\ final_edge_list = <<>>
    /\ load_metadata = None

\* the values the variables of GetData.get_goa_files hold while it does not
\* run
GoaIdle ==
    /\ attempts = 0
    /\ target_count = 0
    /\ actual_count = 0
    /\ on_disk = 0
    /\ partial = {}
    /\ pulls = 0

OthersIdle == FdbIdle /\ GoaIdle

\* the values the write_edge_data variables hold while no assembly runs
EdgeIdle ==
    /\ edge_list = <<>>
    /\ output_mode = "tsv"
    /\ sorted_nodes = <<>>
    /\ node_idx = 0
    /\ cur_grp_name = ""
    /\ first = TRUE
    /\ final_edge_set = {}
    /\ total_edges = 0
    /\ emitted = <<>>

InitNorm ==
    /\ pc = "idle"
    /\ node_list = <<>>
    /\ caller_cache \in SeedCaches
    /\ cached_node_norms = caller_cache
    /\ aliased = TRUE
    /\ to_normalize = <<>>
    /\ start_index = 0
    /\ calls = 0
    /\ node_list0 = <<>>
    /\ keys0 = {}
    /\ requests = <<>>
    /\ sent_before = {}
    /\ EdgeIdle
    /\ LoadIdle
    /\ ConcIdle
    /\ once = <<>>
    /\ OthersIdle

\* ids the service saw in the requests of the current call
SentIds == UNION {Range(requests[i].ids) : i \in DOMAIN requests}

\* the caller builds a node list and calls normalize_node_data(node_list,
\* self.cached_node_norms): the first loop and list(tmp_normalize)
Call ==
    /\ pc = "idle"
    /\ calls < MaxCalls
    /\ \E ids \in SeqsUpTo(Ids, MaxNodes) :
         LET nl == [i \in DOMAIN ids |->
                      NewNode(IF i <= 2 THEN "G" ELSE "H",
                              IF i % 2 = 1 THEN 1 ELSE 2, ids[i])]
         IN /\ node_list' = nl
            /\ node_list0' = nl
            /\ to_normalize' \in Perms(TmpNormalize(nl, caller_cache))
    /\ cached_node_norms' = caller_cache
    /\ aliased' = TRUE
    /\ keys0' = DOMAIN caller_cache
    /\ start_index' = 0
    /\ calls' = calls + 1
    /\ pc' = "chunks"
    /\ UNCHANGED <<fdbVars, goaVars, loadVars, concVars, histVars, caller_cache, requests, sent_before, edgeVars>>

\* a chunk request answered with status 200 and a well-formed payload
Chunk200 ==
    /\ pc = "chunks"
    /\ start_index < Len(to_normalize)
    /\ LET data_chunk == DataChunk(to_normalize, start_index) IN
       \E rvs \in Payloads(data_chunk) :
         /\ cached_node_norms' = Merged(cached_node_norms, rvs)
         /\ requests' = Append(requests,
                [ids |-> data_chunk, status |-> 200, rvs |-> rvs, ok |-> TRUE])
    /\ aliased' = FALSE
    /\ start_index' = start_index + ChunkSize
    /\ UNCHANGED <<fdbVars, goaVars, loadVars, concVars, histVars, pc, node_list, caller_cache, to_normalize, calls,
                   node_list0, keys0, sent_before, edgeVars>>

\* a chunk request answered with status 200 and a payload that lacks the
\* entry of one submitted id
Chunk200Malformed ==
    /\ pc = "chunks"
    /\ start_index < Len(to_normalize)
    /\ LET data_chunk == DataChunk(to_normalize, start_index) IN
       \E drop \in 1..Len(data_chunk) :
       \E rvs \in Payloads([i \in 1..(Len(data_chunk) - 1) |->
                              IF i < drop THEN data_chunk[i]
                              ELSE data_chunk[i + 1]]) :
         /\ cached_node_norms' = Merged(cached_node_norms, rvs)
         /\ requests' = Append(requests,
                [ids |-> data_chunk, status |-> 200, rvs |-> rvs, ok |-> FALSE])
    /\ aliased' = FALSE
    /\ start_index' = start_index + ChunkSize
    /\ UNCHANGED <<fdbVars, goaVars, loadVars, concVars, histVars, pc, node_list, caller_cache, to_normalize, calls,
                   node_list0, keys0, sent_before, edgeVars>>

\* a chunk request answered with a status other than 200
ChunkNon200 ==
    /\ pc = "chunks"
    /\ start_index < Len(to_normalize)
    /\ LET data_chunk == DataChunk(to_normalize, start_index) IN
         /\ cached_node_norms' = MarkUnresolved(cached_node_norms, data_chunk)
         /\ caller_cache' = IF aliased
                            THEN MarkUnresolved(caller_cache, data_chunk)
                            ELSE caller_cache
         /\ requests' = Append(requests,
                [ids |-> data_chunk, status |-> 404, rvs |-> <<>>, ok |-> TRUE])
    /\ start_index' = start_index + ChunkSize
    /\ UNCHANGED <<fdbVars, goaVars, loadVars, concVars, histVars, pc, node_list, aliased, to_normalize, calls,
                   node_list0, keys0, sent_before, edgeVars>>

\* requests.get raises (transport failure): nothing catches it
ChunkRaises ==
    /\ pc = "chunks"
    /\ start_index < Len(to_normalize)
    /\ requests' = Append(requests,
           [ids |-> DataChunk(to_normalize, start_index), status |-> 0,
            rvs |-> <<>>, ok |-> FALSE])
    /\ pc' = "raised"
    /\ UNCHANGED <<fdbVars, goaVars, loadVars, concVars, histVars, node_list, cached_node_norms, aliased, caller_cache,
                   to_normalize, start_index, calls, node_list0, keys0,
                   sent_before, edgeVars>>

\* the chunk loop is over and the rewrite loop runs to its end: the call
\* returns node_list
Rewrite ==
    /\ pc = "chunks"
    /\ start_index >= Len(to_normalize)
    /\ KeyErrorAt(node_list, cached_node_norms) = {}
    /\ node_list' = RewriteLoop(node_list, cached_node_norms,
                                Len(node_list) + 1)
    /\ pc' = "returned"
    /\ UNCHANGED <<fdbVars, goaVars, loadVars, concVars, histVars, normVars, edgeVars>>

\* the chunk loop is over and the rewrite loop meets an id that is no key of
\* the cache: KeyError leaves the call, the fragments before it are rewritten
RewriteKeyError ==
    /\ pc = "chunks"
    /\ start_index >= Len(to_normalize)
    /\ KeyErrorAt(node_list, cached_node_norms) # {}
    /\ LET stop == CHOOSE i \in KeyErrorAt(node_list, cached_node_norms) :
                     \A j \in KeyErrorAt(node_list, cached_node_norms) : i <= j
       IN node_list' = RewriteLoop(node_list, cached_node_norms, stop)
    /\ pc' = "raised"
    /\ UNCHANGED <<fdbVars, goaVars, loadVars, concVars, histVars, normVars, edgeVars>>

\* back in the caller after a call that returned: write_out_data clears its
\* lists, the locals of the call are gone, and the run goes on to the next
\* chunk of fragments
ClearLists ==
    /\ pc = "returned"
    /\ node_list' = <<>>
    /\ cached_node_norms' = caller_cache
    /\ aliased' = TRUE
    /\ to_normalize' = <<>>
    /\ start_index' = 0
    /\ node_list0' = <<>>
    /\ keys0' = {}
    /\ sent_before' = sent_before \cup SentIds
    /\ requests' = <<>>
    /\ once' = <<>>
    /\ pc' = "idle"
    /\ UNCHANGED <<fdbVars, goaVars, loadVars, concVars, caller_cache, calls, edgeVars>>

NextNorm ==
    \/ Call
    \/ ClearLists
    \/ Chunk200
    \/ Chunk200Malformed
    \/ ChunkNon200
    \/ ChunkRaises
    \/ Rewrite
    \/ RewriteKeyError

SpecNorm == InitNorm /\ [][NextNorm]_vars

\* normalize_node_data is applied a second time to the list it has just
\* returned, with the dict the first application ended with as its cache
CallAgain ==
    /\ pc = "returned"
    /\ calls < MaxCalls
    /\ once = <<>>
    /\ Len(node_list) > 0
    /\ once' = node_list
    /\ node_list0' = node_list
    /\ keys0' = DOMAIN cached_node_norms
    /\ to_normalize' \in Perms(TmpNormalize(node_list, cached_node_norms))
    /\ aliased' = FALSE
    /\ start_index' = 0
    /\ calls' = calls + 1
    /\ sent_before' = sent_before \cup SentIds
    /\ requests' = <<>>
    /\ pc' = "chunks"
    /\ UNCHANGED <<fdbVars, goaVars, loadVars, concVars, node_list, cached_node_norms,
                   caller_cache, edgeVars>>

\* a chunk request answered with status 200 and a payload that holds, beside
\* one entry per submitted id, an entry for an id that is Resolved in the
\* cache already, with another record
Chunk200Extra ==
    /\ pc = "chunks"
    /\ start_index < Len(to_normalize)
    /\ LET data_chunk == DataChunk(to_normalize, start_index) IN
       \E rvs \in Payloads(data_chunk) :
       \E id \in DOMAIN cached_node_norms \ Range(data_chunk) :
       \E rec \in {ServiceRecord(x) : x \in Ids} :
         /\ cached_node_norms[id] # None
         /\ cached_node_norms[id] # rec
         /\ LET payload == Merged(rvs, [k \in {id} |-> rec]) IN
            /\ cached_node_norms' = Merged(cached_node_norms, payload)
            /\ requests' = Append(requests,
                   [ids |-> data_chunk, status |-> 200, rvs |-> payload,
                    ok |-> TRUE])
    /\ aliased' = FALSE
    /\ start_index' = start_index + ChunkSize
    /\ UNCHANGED <<fdbVars, goaVars, loadVars, concVars, histVars, pc, node_list, caller_cache,
                   to_normalize, calls, node_list0, keys0, sent_before,
                   edgeVars>>

NextNormExt ==
    \/ NextNorm
    \/ CallAgain
    \/ Chunk200Extra

SpecNormExt == InitNorm /\ [][NextNormExt]_vars


-----------------------------------------------------------------------------
(* Properties of normalize_node_data, checked under SpecNorm *)

\* the ids of the fragments of the current call, as they were at call time
InputIds == {node_list0[i].id : i \in DOMAIN node_list0}

\* every request of the current call was answered with a status and, when
\* that status was 200, with one entry per submitted id
AllAnswered == \A i \in DOMAIN requests : requests[i].ok

\* C1: across the calls of one run that share the caller-owned cache, an id
\* that was sent to the service by an earlier call is never sent again by a
\* later call.
C1_NeverSentAgain == SentIds \cap sent_before = {}

\* C2: chunk-sacrifice. When every request of a call was answered (200 with a
\* full payload, or another status), the call returns without raising; the
\* ids of a chunk answered with a non-200 status are Unresolved and their
\* fragments are left as they were; the ids of a chunk answered with 200 hold
\* the returned entry and their fragments carry the returned identifier
\* (or are left alone where the entry is null). This holds for every order
\* of successes and failures.
C2_ChunkSacrifice ==
    /\ pc = "raised" => ~AllAnswered
    /\ (pc = "returned" /\ AllAnswered) =>
         \A r \in DOMAIN requests : \A id \in Range(requests[r].ids) :
            /\ id \in DOMAIN cached_node_norms
            /\ IF requests[r].status # 200
               THEN cached_node_norms[id] = None
               ELSE cached_node_norms[id] = requests[r].rvs[id]
            /\ \A i \in DOMAIN node_list0 :
                 node_list0[i].id = id =>
                   IF requests[r].status # 200 \/ requests[r].rvs[id] = None
                   THEN node_list[i] = node_list0[i]
                   ELSE node_list[i].id = requests[r].rvs[id].id.identifier

\* C2 witness: a returned call of two chunks, the first answered 200 with a
\* record, the second answered with a failure status
C2_Witness ==
    /\ pc = "returned"
    /\ Len(requests) = 2
    /\ requests[1].status = 200
    /\ \E id \in Range(requests[1].ids) : requests[1].rvs[id] # None
    /\ requests[2].status = 404
    /\ \E i \in DOMAIN node_list : node_list[i] # node_list0[i]

\* C3: whatever goes wrong with a chunk request (a transport exception, a
\* status-200 payload that lacks an entry), no exception leaves
\* normalize_node_data.
C3_NoExceptionPropagates == pc # "raised"

\* C4: at-most-one-lookup. Within one call no id is sent twice (neither
\* within a request nor by two requests), only distinct input ids that were
\* no keys of the cache at call time are sent, and when the call returns
\* every such id has been sent.
C4_AtMostOneLookup ==
    /\ \A i \in DOMAIN requests :
         Cardinality(Range(requests[i].ids)) = Len(requests[i].ids)
    /\ \A i, j \in DOMAIN requests :
         i # j => Range(requests[i].ids) \cap Range(requests[j].ids) = {}
    /\ SentIds \subseteq InputIds \ keys0
    /\ pc = "returned" => SentIds = InputIds \ keys0

\* C4 witness: a returned call whose input repeats an id that had to be looked
\* up and holds an id that was already a key of the (seeded) cache
C4_Witness ==
    /\ pc = "returned"
    /\ \E i, j \in DOMAIN node_list0 :
         i # j /\ node_list0[i].id = node_list0[j].id
               /\ node_list0[i].id \in SentIds
    /\ InputIds \cap keys0 # {}
    /\ SentIds # {}

\* C5: when the call returns, the cache object the caller passed in has a key
\* for every id that occurred in node_list at call time.
C5_CallerCacheFilled ==
    pc = "returned" => InputIds \subseteq DOMAIN caller_cache

\* the cache entry of a raw id is a record (the id is Resolved)
Resolved(id) ==
    id \in DOMAIN cached_node_norms /\ cached_node_norms[id] # None

\* the cache entry of a raw id is None (the id is Unresolved)
Unresolved(id) ==
    id \in DOMAIN cached_node_norms /\ cached_node_norms[id] = None

\* the categories and the equivalent identifiers of a record, empty when the
\* record has no such member
RecordTypes(rec) == IF "type" \in DOMAIN rec THEN rec.type ELSE <<>>

RecordEquivalents(rec) ==
    IF "equivalent_identifiers" \in DOMAIN rec
    THEN [i \in DOMAIN rec.equivalent_identifiers |->
             rec.equivalent_identifiers[i].identifier]
    ELSE <<>>

\* C14: after the rewrite step every fragment whose id is Resolved in the
\* cache has the record's canonical identifier as id, the record's label as
\* name when the record has one and its original name otherwise, the
\* record's categories joined by '|' in the record's order as category, and
\* the record's equivalent identifiers joined by '|' as
\* equivalent_identifiers.
C14_RewriteResolved ==
    pc = "returned" =>
      \A i \in DOMAIN node_list0 :
         Resolved(node_list0[i].id) =>
           LET rec == cached_node_norms[node_list0[i].id] IN
           /\ node_list[i].id = rec.id.identifier
           /\ node_list[i].name = IF "label" \in DOMAIN rec.id
                                  THEN rec.id.label ELSE node_list0[i].name
           /\ node_list[i].category = Join(RecordTypes(rec), "|")
           /\ node_list[i].equivalent_identifiers =
                 Join(RecordEquivalents(rec), "|")
           /\ node_list[i].grp = node_list0[i].grp
           /\ node_list[i].node_num = node_list0[i].node_num

\* C14 witness: a returned call that rewrote a fragment from a record with a
\* label, two categories and two equivalent identifiers, and another one
\* from a record that has none of them
C14_Witness ==
    /\ pc = "returned"
    /\ \E i, j \in DOMAIN node_list0 :
         /\ Resolved(node_list0[i].id) /\ Resolved(node_list0[j].id)
         /\ node_list[i].name = "LA"
         /\ node_list[i].category = <<"c1", "|", "c2">>
         /\ node_list[i].equivalent_identifiers = <<"N1", "|", "A">>
         /\ node_list[j].name = "B" /\ node_list[j].id = "N1"

\* the last request of the call, if any, was answered
NoTransportFailure ==
    \A i \in DOMAIN requests : requests[i].status # 0

\* C15: a fragment whose id is Unresolved in the cache leaves the rewrite
\* step unchanged, and the rewrite step raises no exception for it: when the
\* rewrite loop raises, the fragment it stopped at has an id that is no key
\* of the cache at all.
C15_UnresolvedUnchanged ==
    /\ pc \in {"returned", "raised"} =>
         \A i \in DOMAIN node_list0 :
            Unresolved(node_list0[i].id) => node_list[i] = node_list0[i]
    /\ (pc = "raised" /\ NoTransportFailure) =>
         \E i \in DOMAIN node_list0 :
            node_list0[i].id \notin DOMAIN cached_node_norms

\* C15 witness: a returned call with a Resolved and an Unresolved fragment
C15_Witness ==
    /\ pc = "returned"
    /\ \E i, j \in DOMAIN node_list0 :
         /\ Unresolved(node_list0[i].id)
         /\ Resolved(node_list0[j].id)
         /\ node_list[j] # node_list0[j]

\* return node_list
ReturnValue == node_list

\* C17: the call returns exactly the input identifiers that are Unresolved
\* when it finishes (read for the fragments it returns: the ids they carry
\* are exactly the Unresolved input ids).
C17_ReturnsUnresolved ==
    pc = "returned" =>
      {ReturnValue[i].id : i \in DOMAIN ReturnValue}
        = {id \in InputIds : Unresolved(id)}

\* C16: applying normalize_node_data to the list it returned, with the same
\* cache, needs no service lookup, raises no error and leaves id, name,
\* category and equivalent_identifiers of every fragment as the first
\* application produced them.
C16_IdempotentRewrite ==
    once # <<>> =>
      /\ requests = <<>>
      /\ pc # "raised"
      /\ pc = "returned" =>
            \A i \in DOMAIN once :
               /\ node_list[i].id = once[i].id
               /\ node_list[i].name = once[i].name
               /\ node_list[i].category = once[i].category
               /\ node_list[i].equivalent_identifiers
                    = once[i].equivalent_identifiers

\* C21: the default value of the cache parameter is one dict shared by all
\* invocations that omit the argument (caller_cache is that dict): every id
\* an earlier such invocation looked up is a key of it and is not sent to the
\* service by a later one.
C21_DefaultCacheShared ==
    \A id \in sent_before :
       /\ id \in DOMAIN caller_cache
       /\ id \notin SentIds
       /\ id \notin Range(to_normalize)

\* ceil(n / c)
CeilDiv(n, c) == (n + c - 1) \div c

\* C28: chunk partition. With n ids to look up and chunk size c, the call
\* issues exactly ceil(n/c) requests (none when n = 0); request k carries
\* the k-th slice of the ids, between 1 and c of them; the chunks are
\* pairwise disjoint and their union is the whole set of ids to look up;
\* the chunk loop ends after at most ceil(n/c) passes, each of which issues
\* one request.
C28_ChunkPartition ==
    LET n == Len(to_normalize) IN
    /\ Len(requests) <= CeilDiv(n, ChunkSize)
    /\ \A k \in DOMAIN requests :
         /\ Len(requests[k].ids) \in 1..ChunkSize
         /\ requests[k].ids =
              SubSeq(to_normalize, (k - 1) * ChunkSize + 1,
                     IF k * ChunkSize < n THEN k * ChunkSize ELSE n)
    /\ \A j, k \in DOMAIN requests :
         j # k => Range(requests[j].ids) \cap Range(requests[k].ids) = {}
    /\ pc = "chunks" /\ start_index < n =>
         start_index = Len(requests) * ChunkSize
    /\ pc = "returned" =>
         /\ Len(requests) = CeilDiv(n, ChunkSize)
         /\ SentIds = Range(to_normalize)
         /\ Range(to_normalize) = InputIds \ keys0

\* C28 witness: a returned call that looked up more ids than one chunk
\* holds, in a full chunk and a shorter last one
C28_Witness ==
    /\ pc = "returned"
    /\ Len(to_normalize) > ChunkSize
    /\ Len(requests) = 2
    /\ Len(requests[1].ids) = ChunkSize
    /\ Len(requests[2].ids) < ChunkSize

\* C20: once an id is Resolved in the cache, no later merge of a service
\* response in the same call changes the record stored for it.
C20_FirstWriteWins ==
    [][pc = "chunks" =>
         \A id \in DOMAIN cached_node_norms :
            cached_node_norms[id] # None =>
              /\ id \in DOMAIN cached_node_norms'
              /\ cached_node_norms'[id] = cached_node_norms[id]]_vars


-----------------------------------------------------------------------------
(* UGLoader.write_edge_data: the pure parts *)

\* the order Python gives the group keys when it compares them as strings
GroupOrder == <<"A/R/C", "B/R/C", "C/R/A", "G", "H", "K">>

GrpRank(g) == CHOOSE i \in DOMAIN GroupOrder : GroupOrder[i] = g

\* insertion of x behind every element whose key is not greater
RECURSIVE InsertByGrp(_, _)
InsertByGrp(s, x) ==
    IF Len(s) = 0 THEN <<x>>
    ELSE IF GrpRank(s[Len(s)].grp) <= GrpRank(x.grp) THEN Append(s, x)
    ELSE Append(InsertByGrp(SubSeq(s, 1, Len(s) - 1), x), s[Len(s)])

\* sorted(node_list, key=itemgetter('grp')): a stable sort (the sorted front
\* is bound as a value, so that it is computed once)
RECURSIVE SortedByGrp(_)
SortedByGrp(nl) ==
    IF Len(nl) = 0 THEN <<>>
    ELSE CHOOSE r \in {InsertByGrp(front, nl[Len(nl)]) :
                          front \in {SortedByGrp(SubSeq(nl, 1, Len(nl) - 1))}} :
             TRUE

\* the rows of the relation table whose index is grp (df.loc[grp])
RelationRows(el, grp) == SelectSeq(el, LAMBDA row : row.grp = grp)

\* mutant of GrpList: the inner loop stops after one fragment
GrpList_One(sn, idx, grp) ==
    IF idx >= Len(sn) \/ sn[idx + 1].grp # grp THEN <<>>
    ELSE <<sn[idx + 1]>>

\* grp_list: the fragments collected by the inner loop, which starts at the
\* 0-based index idx and stops at the first fragment of another group
RECURSIVE GrpList(_, _, _)
GrpList(sn, idx, grp) ==
    IF idx >= Len(sn) \/ sn[idx + 1].grp # grp THEN <<>>
    ELSE <<sn[idx + 1]>> \o GrpList(sn, idx + 1, grp)

\* mutant of PickId: subject and object positions are swapped
RECURSIVE PickId_Swapped(_, _)
PickId_Swapped(gl, num) ==
    IF Len(gl) = 0 THEN ""
    ELSE IF gl[Len(gl)].node_num = 3 - num THEN gl[Len(gl)].id
    ELSE PickId_Swapped(SubSeq(gl, 1, Len(gl) - 1), num)

\* the id the pairing loop leaves in source_node_id (num = 1) or
\* object_node_id (num = 2): that of the last fragment with that node_num
RECURSIVE PickId(_, _)
PickId(gl, num) ==
    IF Len(gl) = 0 THEN ""
    ELSE IF gl[Len(gl)].node_num = num THEN gl[Len(gl)].id
    ELSE PickId(SubSeq(gl, 1, Len(gl) - 1), num)

\* 'UberGraph ' + data_file_name.split('.')[0]
DataSourceName == "UberGraph ug"

\* the edge text of the two output modes, as a sequence of tokens
EdgeText(mode, src, rel, obj) ==
    IF mode = "json"
    THEN <<", \"subject\":\"", src, "\", \"relation\":\"", rel,
           "\", \"object\":\"", obj, "\", \"edge_label\":\"", rel,
           "\", \"source_database\":\"", DataSourceName, "\"}">>
    ELSE <<"\t", src, "\t", rel, "\t", rel, "\t", obj, "\t", DataSourceName>>

\* hashlib.md5(text).hexdigest(): a digest that is a function of the text
Md5(text) == [md5 |-> text]

\* mutant of EdgeEntry: the digest is taken of the running edge count
EdgeEntry_Numbered(mode, src, rel, obj) ==
    <<Md5(<<total_edges>>)>> \o EdgeText(mode, src, rel, obj)

\* mutant of EdgeEntry: the digest is that of the empty text
EdgeEntry_EmptyDigest(mode, src, rel, obj) ==
    <<Md5(<<>>)>> \o EdgeText(mode, src, rel, obj)

\* the entry added to final_edge_set: the digest followed by the edge text
EdgeEntry(mode, src, rel, obj) ==
    <<Md5(EdgeText(mode, src, rel, obj))>> \o EdgeText(mode, src, rel, obj)

\* mutant of ReachesPairing: a single fragment is let through
ReachesPairing_OffByOne(gl) == ~(Len(gl) < 1)

\* whether the size test lets a collected group through to the pairing code
\* (a group of more than two is logged and falls through)
ReachesPairing(gl) == ~(Len(gl) < 2)

\* mutant of PairingOutcome: a missing relation row is skipped
PairingOutcome_SkipMissingRow(gl, rows) ==
    LET src == PickId(gl, 1)
        obj == PickId(gl, 2)
    IN IF Len(rows) = 0 THEN "skip"
       ELSE IF src = "" \/ obj = "" THEN "skip"
       ELSE IF Len(rows) > 1 THEN "ValueError"
       ELSE IF rows[1].relation # "" THEN "emit"
       ELSE "skip"

\* mutant of PairingOutcome: the object id is not tested
PairingOutcome_NoObjectTest(gl, rows) ==
    LET src == PickId(gl, 1)
    IN IF Len(rows) = 0 THEN "KeyError"
       ELSE IF src = "" THEN "skip"
       ELSE IF Len(rows) > 1 THEN "ValueError"
       ELSE IF rows[1].relation # "" THEN "emit"
       ELSE "skip"

\* the outcome of the test "did we get everything" for a group: "KeyError"
\* when the relation table has no row, "ValueError" when it has several rows
\* and the test reaches the truth value of a Series, else "emit" or "skip"
PairingOutcome(gl, rows) ==
    LET src == PickId(gl, 1)
        obj == PickId(gl, 2)
    IN IF Len(rows) = 0 THEN "KeyError"
       ELSE IF src = "" \/ obj = "" THEN "skip"
       ELSE IF Len(rows) > 1 THEN "ValueError"
       ELSE IF rows[1].relation # "" THEN "emit"
       ELSE "skip"


-----------------------------------------------------------------------------
(* UGLoader.write_edge_data: the call as a state machine, one step per     *)
(* iteration of the outer loop                                             *)

\* longest fragment list handed to write_edge_data
MaxFrags == 3

\* the (node_num, id) pairs a fragment may carry: a subject, an object, an
\* object whose id is empty, and a fragment with an unknown node number
NodeKinds == {<<1, "A">>, <<2, "B">>, <<2, "">>, <<3, "A">>}

Fragments == {NewNode(g, k[1], k[2]) : g \in Groups, k \in NodeKinds}

\* an edge-relation fragment as parse_data_file creates it
NewEdge(grp, rel) ==
    [grp |-> grp, predicate |-> rel, relation |-> rel, edge_label |-> rel]

\* the relation rows one group can have: none, one (with a relation or with
\* an empty one), or two
GroupRows(g) ==
    {<<>>, <<NewEdge(g, "R")>>, <<NewEdge(g, "")>>,
     <<NewEdge(g, "R"), NewEdge(g, "R")>>}

\* the relation tables: any rows for G, no row or one relation for H, and
\* one relation for K
EdgeTables ==
    {rG \o rH \o <<NewEdge("K", "R")>> :
        rG \in GroupRows("G"), rH \in {<<>>, <<NewEdge("H", "R")>>}}

\* the values the normalize_node_data variables hold while no call runs
NormIdle ==
    /\ cached_node_norms = <<>>
    /\ aliased = TRUE
    /\ caller_cache = <<>>
    /\ to_normalize = <<>>
    /\ start_index = 0
    /\ calls = 0
    /\ node_list0 = <<>>
    /\ keys0 = {}
    /\ requests = <<>>
    /\ sent_before = {}

InitEdge ==
    /\ pc = "ready"
    /\ node_list \in SeqsUpTo(Fragments, MaxFrags)
    /\ edge_list \in EdgeTables
    /\ output_mode \in {"json", "tsv"}
    /\ sorted_nodes = <<>>
    /\ node_idx = 0
    /\ cur_grp_name = ""
    /\ first = TRUE
    /\ final_edge_set = {}
    /\ total_edges = 0
    /\ emitted = <<>>
    /\ NormIdle
    /\ LoadIdle
    /\ ConcIdle
    /\ once = <<>>
    /\ OthersIdle

\* entry of write_edge_data: the relation table and the sort
StartEdges ==
    /\ pc = "ready"
    /\ sorted_nodes' = SortedByGrp(node_list)
    /\ node_idx' = 0
    /\ cur_grp_name' = ""
    /\ first' = TRUE
    /\ pc' = "scan"
    /\ UNCHANGED <<fdbVars, goaVars, loadVars, concVars, histVars, node_list, normVars, edge_list, output_mode,
                   final_edge_set, total_edges, emitted>>

\* the outer loop's test fails on entry (an empty list): the call returns
ScanNothing ==
    /\ pc = "scan"
    /\ ~(node_idx < Len(sorted_nodes))
    /\ pc' = "done"
    /\ UNCHANGED <<fdbVars, goaVars, loadVars, concVars, histVars, node_list, normVars, edgeVars>>

\* cur_grp_name after the "prime the pump" test of an iteration
CurGrp == IF first THEN sorted_nodes[node_idx + 1].grp ELSE cur_grp_name

\* the group the inner loop of this iteration collects
CurList == GrpList(sorted_nodes, node_idx, CurGrp)

\* the end of an iteration that did not raise: break at the end of the
\* list, else save the next group name and loop
Advance ==
    /\ node_idx' = node_idx + Len(CurList)
    /\ first' = FALSE
    /\ IF node_idx + Len(CurList) >= Len(sorted_nodes)
       THEN pc' = "done" /\ cur_grp_name' = CurGrp
       ELSE pc' = "scan"
            /\ cur_grp_name' = sorted_nodes[node_idx + Len(CurList) + 1].grp

\* an iteration whose group has fewer than two fragments
ScanDangling ==
    /\ pc = "scan"
    /\ node_idx < Len(sorted_nodes)
    /\ ~ReachesPairing(CurList)
    /\ Advance
    /\ UNCHANGED <<fdbVars, goaVars, loadVars, concVars, histVars, node_list, normVars, edge_list, output_mode, sorted_nodes,
                   final_edge_set, total_edges, emitted>>

\* an iteration that reaches the pairing code and adds an edge
ScanEmit ==
    /\ pc = "scan"
    /\ node_idx < Len(sorted_nodes)
    /\ ReachesPairing(CurList)
    /\ PairingOutcome(CurList, RelationRows(edge_list, CurGrp)) = "emit"
    /\ LET src == PickId(CurList, 1)
           obj == PickId(CurList, 2)
           rel == RelationRows(edge_list, CurGrp)[1].relation
       IN /\ final_edge_set' =
                final_edge_set \cup {EdgeEntry(output_mode, src, rel, obj)}
          /\ emitted' = Append(emitted,
                [grp |-> CurGrp, subject |-> src, relation |-> rel,
                 object |-> obj])
    /\ total_edges' = total_edges + 1
    /\ Advance
    /\ UNCHANGED <<fdbVars, goaVars, loadVars, concVars, histVars, node_list, normVars, edge_list, output_mode, sorted_nodes>>

\* an iteration that reaches the pairing code and finds a node or the
\* relation missing
ScanSkip ==
    /\ pc = "scan"
    /\ node_idx < Len(sorted_nodes)
    /\ ReachesPairing(CurList)
    /\ PairingOutcome(CurList, RelationRows(edge_list, CurGrp)) = "skip"
    /\ Advance
    /\ UNCHANGED <<fdbVars, goaVars, loadVars, concVars, histVars, node_list, normVars, edge_list, output_mode, sorted_nodes,
                   final_edge_set, total_edges, emitted>>

\* an iteration whose df.loc[cur_grp_name] raises KeyError, or whose test
\* raises ValueError: the exception leaves write_edge_data
ScanRaises ==
    /\ pc = "scan"
    /\ node_idx < Len(sorted_nodes)
    /\ ReachesPairing(CurList)
    /\ PairingOutcome(CurList, RelationRows(edge_list, CurGrp))
          \in {"KeyError", "ValueError"}
    /\ node_idx' = node_idx + Len(CurList)
    /\ cur_grp_name' = CurGrp
    /\ first' = FALSE
    /\ pc' = "raised"
    /\ UNCHANGED <<fdbVars, goaVars, loadVars, concVars, histVars, node_list, normVars, edge_list, output_mode, sorted_nodes,
                   final_edge_set, total_edges, emitted>>

NextEdge ==
    \/ StartEdges
    \/ ScanNothing
    \/ ScanDangling
    \/ ScanEmit
    \/ ScanSkip
    \/ ScanRaises

SpecEdge == InitEdge /\ [][NextEdge]_vars

\* the fragments of well-formed triples: a subject and an object per group
PairFragments ==
    {NewNode(g, k[1], k[2]) : g \in Groups, k \in {<<1, "A">>, <<2, "B">>}}

\* the caller before it calls write_edge_data
InitEdgeFair ==
    /\ pc = "caller"
    /\ node_list = <<>>
    /\ edge_list = <<>>
    /\ output_mode = "tsv"
    /\ sorted_nodes = <<>>
    /\ node_idx = 0
    /\ cur_grp_name = ""
    /\ first = TRUE
    /\ final_edge_set = {}
    /\ total_edges = 0
    /\ emitted = <<>>
    /\ NormIdle
    /\ LoadIdle
    /\ ConcIdle
    /\ once = <<>>
    /\ OthersIdle

\* write_edge_data is called in tsv mode with a list of such fragments, in
\* any order and number per group, and any relation table
EnterEdges ==
    /\ pc = "caller"
    /\ node_list' \in SeqsUpTo(PairFragments, MaxFrags)
    /\ edge_list' \in EdgeTables
    /\ pc' = "ready"
    /\ UNCHANGED <<fdbVars, goaVars, loadVars, concVars, histVars, normVars,
                   output_mode, sorted_nodes, node_idx, cur_grp_name, first,
                   final_edge_set, total_edges, emitted>>

NextEdgeFair ==
    \/ EnterEdges
    \/ NextEdge

\* write_edge_data is a sequential loop: a call that can take a step takes it
SpecEdgeFair ==
    InitEdgeFair /\ [][NextEdgeFair]_vars /\ WF_vars(NextEdgeFair)


-----------------------------------------------------------------------------
(* Properties of write_edge_data, checked under SpecEdge *)

\* the indices of the input fragments that carry group key g
Members(g) == {j \in DOMAIN node_list : node_list[j].grp = g}

\* the entries of the emission log that belong to group key g
EmittedFor(g) == {i \in DOMAIN emitted : emitted[i].grp = g}

\* the scan has gone past the whole run of g without raising
Passed(g) ==
    /\ pc \in {"scan", "done"}
    /\ \A j \in DOMAIN sorted_nodes : sorted_nodes[j].grp = g => j <= node_idx

\* g is a run of exactly two fragments, one at position 1 and one at
\* position 2, both with an id, and g has one non-empty relation
WellFormedPair(g) ==
    /\ Cardinality(Members(g)) = 2
    /\ \E a, b \in Members(g) :
         /\ node_list[a].node_num = 1 /\ node_list[a].id # ""
         /\ node_list[b].node_num = 2 /\ node_list[b].id # ""
    /\ Len(RelationRows(edge_list, g)) = 1
    /\ RelationRows(edge_list, g)[1].relation # ""

\* C6: anomaly suppression. No edge is ever emitted for a group key that
\* more than two fragments share.
C6_NoEdgeForLargeGroup ==
    \A i \in DOMAIN emitted : Cardinality(Members(emitted[i].grp)) <= 2

\* C7: exact pairing. Once the scan is past a run of exactly two fragments
\* (position 1 with id A, position 2 with id B, in either order) whose group
\* has one non-empty relation R, exactly one edge was emitted for that group,
\* its subject is A, its object B, its relation R, and final_edge_set holds
\* an entry whose text carries A, R and B in the subject, relation and object
\* places of the output mode.
C7_ExactPairing ==
    \A g \in Groups :
      (WellFormedPair(g) /\ Passed(g)) =>
        LET a == CHOOSE j \in Members(g) : node_list[j].node_num = 1
            b == CHOOSE j \in Members(g) : node_list[j].node_num = 2
            R == RelationRows(edge_list, g)[1].relation
        IN /\ Cardinality(EmittedFor(g)) = 1
           /\ \A i \in EmittedFor(g) :
                /\ emitted[i].subject = node_list[a].id
                /\ emitted[i].object = node_list[b].id
                /\ emitted[i].relation = R
           /\ \E e \in final_edge_set :
                LET text == Tail(e) IN
                /\ text[2] = node_list[a].id
                /\ text[4] = R
                /\ IF output_mode = "json"
                   THEN text[6] = node_list[b].id
                   ELSE text[8] = node_list[b].id

\* C7 witness: a finished scan over a well-formed pair whose position-2
\* fragment came first in the input, with its edge emitted
C7_Witness ==
    /\ pc = "done"
    /\ \E g \in Groups :
         /\ WellFormedPair(g)
         /\ \E a, b \in Members(g) :
              b < a /\ node_list[a].node_num = 1 /\ node_list[b].node_num = 2
         /\ EmittedFor(g) # {}

MalformedPair(g) ==
    /\ Cardinality(Members(g)) = 2
    /\ RelationRows(edge_list, g) # <<>>
    /\ \/ ~\E a \in Members(g) :
              node_list[a].node_num = 1 /\ node_list[a].id # ""
       \/ ~\E b \in Members(g) :
              node_list[b].node_num = 2 /\ node_list[b].id # ""
       \/ /\ Len(RelationRows(edge_list, g)) = 1
          /\ RelationRows(edge_list, g)[1].relation = ""

EdgeCallOver == pc \in {"done", "raised"}

\* the scan index stands at the end of a run: no fragment behind it has the
\* group key of the fragment just before it
AtRunBoundary ==
    node_idx > 0 =>
      \A j \in DOMAIN sorted_nodes :
         sorted_nodes[j].grp = sorted_nodes[node_idx].grp => j <= node_idx

\* C29: write_edge_data terminates for every fragment list: every pass of
\* the outer loop moves the scan index forward, by one whole run of equal
\* group keys, so every fragment is examined in exactly one pass, the index
\* never passes the end of the list and stands there when the call returns;
\* at most one edge is emitted per group key; and every call ends.
C29_ScanTerminates ==
    /\ [](/\ node_idx <= Len(sorted_nodes)
          /\ AtRunBoundary
          /\ pc = "done" => node_idx = Len(sorted_nodes)
          /\ \A g \in Groups : Cardinality(EmittedFor(g)) <= 1)
    /\ [][pc = "scan" /\ node_idx < Len(sorted_nodes)
            => node_idx' > node_idx]_vars
    /\ (pc = "ready") ~> EdgeCallOver

\* C29 witness: a call over a run of two fragments and a run of one has
\* returned after two passes, one of which emitted an edge
C29_Witness ==
    /\ pc = "done"
    /\ Len(sorted_nodes) = 3
    /\ Len(emitted) = 1
    /\ \E j \in DOMAIN sorted_nodes :
         sorted_nodes[j].grp # sorted_nodes[1].grp

-----------------------------------------------------------------------------
(* UGLoader.write_out_data and the file loop: the pure parts *)

\* number of chunks (split files) of one run
MaxChunks == 2
\* number of input files of one run
MaxFiles == 2

\* the curie triples found in the input files
Triples == {<<"A", "R", "C">>, <<"B", "R", "C">>, <<"C", "R", "A">>}

\* the triples of one split file, in the order g.triples yields them: one
\* triple, two triples, or the same triple twice
ChunkChoices ==
    {<<t>> : t \in Triples}
      \cup {<<<<"A", "R", "C">>, <<"B", "R", "C">>>>,
            <<<<"C", "R", "A">>, <<"A", "R", "C">>>>,
            <<<<"A", "R", "C">>, <<"A", "R", "C">>>>}

\* grp = '/'.join(triple)
TripleGrp(t) == t[1] \o "/" \o t[2] \o "/" \o t[3]

\* the node fragments parse_data_file appends for the triples of a chunk
RECURSIVE ParseNodes(_)
ParseNodes(chunk) ==
    IF Len(chunk) = 0 THEN <<>>
    ELSE <<NewNode(TripleGrp(chunk[1]), 1, chunk[1][1]),
           NewNode(TripleGrp(chunk[1]), 2, chunk[1][3])>>
         \o ParseNodes(Tail(chunk))

\* the edge-relation fragments parse_data_file appends for a chunk
ParseEdges(chunk) ==
    [i \in DOMAIN chunk |->
        [grp |-> TripleGrp(chunk[i]), predicate |-> chunk[i][2],
         relation |-> chunk[i][2], edge_label |-> chunk[i][2]]]

\* EdgeNormUtils.normalize_edge_data is not part of the source files at hand;
\* the relation member, the only one write_edge_data reads, is taken to be
\* kept as parsed
NormalizeEdgeData(el) == el

\* the dict the local name is bound to after the chunk loop when the service
\* answers every request with status 200 and the entries of this run
RECURSIVE LookupAll(_, _, _)
LookupAll(cache, list, start) ==
    IF ~(start < Len(list)) THEN cache
    ELSE LookupAll(
           Merged(cache, [id \in Range(DataChunk(list, start)) |-> answers[id]]),
           list, start + ChunkSize)

\* mutant of EdgeInput: the edges are assembled from the fragments as parsed
EdgeInput_BeforeRewrite(parsed, rewritten) == parsed

\* the node list write_out_data hands to write_edge_data: the list that
\* normalize_node_data has rewritten in place
EdgeInput(parsed, rewritten) == rewritten

\* write_edge_data as a whole: the outer loop from the 0-based index idx on;
\* acc.log holds the edges added so far, acc.raised whether the call raised
RECURSIVE ScanAll(_, _, _, _)
ScanAll(sn, el, idx, acc) ==
    IF ~(idx < Len(sn)) THEN acc
    ELSE LET g == sn[idx + 1].grp
             gl == GrpList(sn, idx, g)
             rows == RelationRows(el, g)
         IN IF ~ReachesPairing(gl) THEN ScanAll(sn, el, idx + Len(gl), acc)
            ELSE IF PairingOutcome(gl, rows) \in {"KeyError", "ValueError"}
                 THEN [acc EXCEPT !.raised = TRUE]
            ELSE IF PairingOutcome(gl, rows) = "emit"
                 THEN ScanAll(sn, el, idx + Len(gl),
                        [acc EXCEPT !.log = Append(@,
                            [grp |-> g, subject |-> PickId(gl, 1),
                             relation |-> rows[1].relation,
                             object |-> PickId(gl, 2)])])
            ELSE ScanAll(sn, el, idx + Len(gl), acc)

\* df.drop(['grp', 'node_num'], axis=1): the columns of a node row
NodeRow(node) ==
    [id |-> node.id, name |-> node.name, category |-> node.category,
     equivalent_identifiers |-> node.equivalent_identifiers]

\* drop_duplicates(keep='first')
RECURSIVE DropDuplicates(_)
DropDuplicates(rows) ==
    IF Len(rows) = 0 THEN <<>>
    ELSE LET init == DropDuplicates(SubSeq(rows, 1, Len(rows) - 1))
         IN IF rows[Len(rows)] \in Range(init) THEN init
            ELSE Append(init, rows[Len(rows)])

\* text.split(sep) on a sequence of tokens: the list of the parts
RECURSIVE Split(_, _)
Split(text, sep) ==
    IF \E i \in DOMAIN text : text[i] = sep
    THEN LET i == CHOOSE k \in DOMAIN text :
                    text[k] = sep /\ \A j \in 1..(k - 1) : text[j] # sep
         IN <<SubSeq(text, 1, i - 1)>>
            \o Split(SubSeq(text, i + 1, Len(text)), sep)
    ELSE <<text>>

\* json.dumps of a list of strings
RECURSIVE JsonItems(_)
JsonItems(parts) ==
    IF Len(parts) = 0 THEN <<>>
    ELSE (<<"\"">> \o parts[1] \o <<"\"">>)
         \o (IF Len(parts) = 1 THEN <<>> ELSE <<", ">>)
         \o JsonItems(Tail(parts))

JsonDumps(parts) == <<"[">> \o JsonItems(parts) \o <<"]">>

\* the node text of the two output modes, as a sequence of tokens
NodeText(mode, row) ==
    IF mode = "json"
    THEN <<"{\"id\":\"", row.id, "\", \"name\":\"", row.name,
           "\", \"category\":">>
         \o JsonDumps(Split(row.category, "|"))
         \o <<", \"equivalent_identifiers\":">>
         \o JsonDumps(Split(row.equivalent_identifiers, "|"))
         \o <<"}">>
    ELSE <<row.id, "\t", row.name, "\t">> \o row.category \o <<"\t">>
         \o row.equivalent_identifiers

\* mutant of NodeTexts: a row whose id some entry of final_node_set carries
\* already is not added
NodeTexts_FirstPerId(mode, nl) ==
    LET rows == DropDuplicates([i \in DOMAIN nl |-> NodeRow(nl[i])])
        known == {n[IF mode = "json" THEN 2 ELSE 1] : n \in final_node_set}
        keep == SelectSeq(rows, LAMBDA r : r.id \notin known)
    IN [i \in DOMAIN keep |-> NodeText(mode, keep[i])]

\* the texts write_out_data adds to final_node_set for a node list, one per
\* row that drop_duplicates keeps
NodeTexts(mode, nl) ==
    LET rows == DropDuplicates([i \in DOMAIN nl |-> NodeRow(nl[i])])
    IN [i \in DOMAIN rows |-> NodeText(mode, rows[i])]


-----------------------------------------------------------------------------
(* UGLoader.load, parse_data_file and write_out_data as a state machine *)

\* the entries a run's service holds: for every id null or its record, the
\* same on every request
ServiceTables == {f \in [Ids -> UNION {Answers(id) : id \in Ids}] :
                     \A id \in Ids : f[id] \in Answers(id)}

\* a fresh UGLoader before load() opens its first input file
InitLoad ==
    /\ pc = "load"
    /\ node_list = <<>>
    /\ caller_cache = <<>>
    /\ cached_node_norms = <<>>
    /\ aliased = TRUE
    /\ to_normalize = <<>>
    /\ start_index = 0
    /\ calls = 0
    /\ node_list0 = <<>>
    /\ keys0 = {}
    /\ requests = <<>>
    /\ sent_before = {}
    /\ edge_list = <<>>
    /\ output_mode \in {"json", "tsv"}
    /\ sorted_nodes = <<>>
    /\ node_idx = 0
    /\ cur_grp_name = ""
    /\ first = TRUE
    /\ final_edge_set = {}
    /\ total_edges = 0
    /\ emitted = <<>>
    /\ final_node_set = {}
    /\ total_nodes = 0
    /\ answers \in ServiceTables
    /\ chunk_log = <<>>
    /\ file_log = <<>>
    /\ used_cache = <<>>
    /\ written = <<>>
    /\ ConcIdle
    /\ once = <<>>
    /\ OthersIdle

\* the entries final_edge_set.add is called with for a log of assembled edges
EdgeEntries(mode, log) ==
    {EdgeEntry(mode, log[k].subject, log[k].relation, log[k].object) :
        k \in DOMAIN log}

\* mutant of ClearedList: the list keeps its fragments
ClearedList_Kept(list) == list

\* node_list.clear() and edge_list.clear() at the end of write_out_data
ClearedList(list) == <<>>

\* what one write_out_data call computes once parse_data_file has appended
\* the fragments of a chunk of triples to its two lists, given the order
\* list(tmp_normalize) came out in
ChunkRun(chunk, order) ==
    LET parsed == node_list \o ParseNodes(chunk)
        el == NormalizeEdgeData(edge_list \o ParseEdges(chunk))
        local == LookupAll(caller_cache, order, 0)
        rewritten == RewriteLoop(parsed, local, Len(parsed) + 1)
        scan == ScanAll(SortedByGrp(EdgeInput(parsed, rewritten)), el, 0,
                        [raised |-> FALSE, log |-> <<>>])
    IN [parsed |-> parsed, el |-> el, local |-> local,
        rewritten |-> rewritten, scan |-> scan]

\* parse_data_file reads the triples of one split file and write_out_data
\* normalizes them, assembles the edges, adds the node rows and clears the
\* lists
WriteOutData ==
    /\ pc = "load"
    /\ calls < MaxChunks
    /\ Len(written) < MaxFiles
    /\ \E chunk \in ChunkChoices :
       \E order \in Perms(TmpNormalize(node_list \o ParseNodes(chunk),
                                        caller_cache)) :
         LET run == ChunkRun(chunk, order) IN
         /\ ~run.scan.raised
         /\ chunk_log' = Append(chunk_log, chunk)
         /\ file_log' = Append(file_log, chunk)
         /\ node_list0' = run.parsed
         /\ used_cache' = run.local
         /\ emitted' = run.scan.log
         /\ final_edge_set' =
              final_edge_set \cup EdgeEntries(output_mode, run.scan.log)
         /\ total_edges' = total_edges + Len(run.scan.log)
         /\ final_node_set' =
              final_node_set \cup Range(NodeTexts(output_mode, run.rewritten))
         /\ total_nodes' =
              total_nodes + Len(NodeTexts(output_mode, run.rewritten))
         /\ node_list' = ClearedList(run.rewritten)
         /\ edge_list' = ClearedList(run.el)
    /\ calls' = calls + 1
    /\ UNCHANGED <<fdbVars, goaVars, pc, cached_node_norms, aliased,
                   caller_cache, to_normalize, start_index, keys0, requests,
                   sent_before, output_mode, sorted_nodes, node_idx,
                   cur_grp_name, first, answers, written, concVars, histVars>>

\* the same, for a chunk whose edge assembly raises: the exception leaves
\* write_out_data and load, the edges added before it stay in the set
WriteOutDataRaises ==
    /\ pc = "load"
    /\ calls < MaxChunks
    /\ Len(written) < MaxFiles
    /\ \E chunk \in ChunkChoices :
       \E order \in Perms(TmpNormalize(node_list \o ParseNodes(chunk),
                                        caller_cache)) :
         LET run == ChunkRun(chunk, order) IN
         /\ run.scan.raised
         /\ chunk_log' = Append(chunk_log, chunk)
         /\ file_log' = Append(file_log, chunk)
         /\ node_list0' = run.parsed
         /\ node_list' = run.rewritten
         /\ edge_list' = run.el
         /\ used_cache' = run.local
         /\ emitted' = run.scan.log
         /\ final_edge_set' =
              final_edge_set \cup EdgeEntries(output_mode, run.scan.log)
         /\ total_edges' = total_edges + Len(run.scan.log)
    /\ calls' = calls + 1
    /\ pc' = "raised"
    /\ UNCHANGED <<fdbVars, goaVars, cached_node_norms, aliased, caller_cache, to_normalize,
                   start_index, keys0, requests, sent_before, output_mode,
                   sorted_nodes, node_idx, cur_grp_name, first,
                   final_node_set, total_nodes, answers, written, concVars,
                   histVars>>

\* parse_data_file writes final_node_set and final_edge_set to the files of
\* the input file, and load() goes on to the next input file: it resets the
\* two counters
EndFile ==
    /\ pc = "load"
    /\ Len(written) < MaxFiles
    /\ written' = Append(written,
           [nodes |-> final_node_set, edges |-> final_edge_set,
            total_nodes |-> total_nodes, total_edges |-> total_edges,
            chunks |-> file_log])
    /\ file_log' = <<>>
    /\ total_nodes' = 0
    /\ total_edges' = 0
    /\ UNCHANGED <<fdbVars, goaVars, pc, node_list, normVars, edge_list, output_mode,
                   sorted_nodes, node_idx, cur_grp_name, first,
                   final_edge_set, emitted, final_node_set, answers,
                   chunk_log, used_cache, concVars, histVars>>

NextLoad ==
    \/ WriteOutData
    \/ WriteOutDataRaises
    \/ EndFile

SpecLoad == InitLoad /\ [][NextLoad]_vars


-----------------------------------------------------------------------------
(* Properties of the file loop, checked under SpecLoad *)

\* the triples and the raw ids of a log of chunks
TriplesOf(log) == UNION {Range(log[k]) : k \in DOMAIN log}

IdsOf(log) == UNION {{t[1], t[3]} : t \in TriplesOf(log)}

\* the id a fragment with raw id carries after the rewrite of this run
Canon(id) ==
    IF answers[id] = None THEN id ELSE answers[id].id.identifier

\* the content of the edge of a triple: subject, relation, object
EdgeContent(t) == <<Canon(t[1]), t[2], Canon(t[3])>>

\* the node row of a raw id after the rewrite of this run
RowOf(id) == NodeRow(RewriteNode(NewNode("", 1, id), answers))

\* the edge entries and the node entries a log of chunks gives rise to,
\* whatever the order of the chunks
UnionOfEdges(log) ==
    {EdgeEntry(output_mode, EdgeContent(t)[1], EdgeContent(t)[2],
               EdgeContent(t)[3]) : t \in TriplesOf(log)}

UnionOfNodes(log) == {NodeText(output_mode, RowOf(id)) : id \in IdsOf(log)}

\* C11: dedup idempotence. An edge content (subject, relation, object, with
\* the source name and the output mode of the run) that was derived once or
\* several times, within one chunk or by different chunks, has exactly one
\* entry in final_edge_set, and a node row (id, name, category,
\* equivalent_identifiers) derived once or several times has exactly one
\* entry in final_node_set: no two entries carry the same text, and the sets
\* hold as many entries as distinct contents were derived.
C11_DedupIdempotent ==
    /\ \A e1, e2 \in final_edge_set : Tail(e1) = Tail(e2) => e1 = e2
    /\ pc = "load" =>
         /\ \A t \in TriplesOf(chunk_log) :
              Cardinality({e \in final_edge_set :
                  Tail(e) = EdgeText(output_mode, EdgeContent(t)[1],
                                     EdgeContent(t)[2], EdgeContent(t)[3])})
                = 1
         /\ Cardinality(final_edge_set)
              = Cardinality({EdgeContent(t) : t \in TriplesOf(chunk_log)})
         /\ \A id \in IdsOf(chunk_log) :
              NodeText(output_mode, RowOf(id)) \in final_node_set
         /\ Cardinality(final_node_set)
              = Cardinality({RowOf(id) : id \in IdsOf(chunk_log)})

\* C11 witness: two chunks of the first file derived more edges and more
\* node rows than the sets hold entries
C11_Witness ==
    /\ pc = "load"
    /\ Len(chunk_log) = 2
    /\ written = <<>>
    /\ total_edges > Cardinality(final_edge_set)
    /\ total_nodes > Cardinality(final_node_set)
    /\ Cardinality(final_edge_set) > 0

\* C12: order independence. With a service that answers each id the same way
\* on every request, the node set and the edge set held after the chunks
\* were processed are the union of what each triple gives rise to, the same
\* for every order in which the chunks were processed.
C12_OrderIndependent ==
    pc = "load" =>
      /\ final_edge_set = UnionOfEdges(chunk_log)
      /\ final_node_set = UnionOfNodes(chunk_log)

\* C12 witness: two different chunks were processed and gave two edges
C12_Witness ==
    /\ pc = "load"
    /\ Len(chunk_log) = 2
    /\ chunk_log[1] # chunk_log[2]
    /\ Cardinality(final_edge_set) >= 2
    /\ Cardinality(final_node_set) >= 2

\* C13: the node and edge records written for an input file are only those
\* derived from that file's own chunks.
C13_OutputPerFile ==
    \A k \in DOMAIN written :
       /\ written[k].edges = UnionOfEdges(written[k].chunks)
       /\ written[k].nodes = UnionOfNodes(written[k].chunks)

\* C31: after an input file has been processed the counters match the
\* output: total_edges is the number of edge entries written for the file
\* and total_nodes the number of node entries written for it.
C31_CountersMatchOutput ==
    \A k \in DOMAIN written :
       /\ written[k].total_edges = Cardinality(written[k].edges)
       /\ written[k].total_nodes = Cardinality(written[k].nodes)

\* C18: node rewriting comes before edge assembly. Every edge the last chunk
\* added carries, for a raw id that is Resolved in the cache used for that
\* chunk, the record's canonical identifier and not the raw id, and no entry
\* of final_edge_set has a Resolved raw id as subject or object.
C18_EdgesCarryCanonical ==
    /\ \A k \in DOMAIN emitted :
         \A t \in Range(chunk_log[Len(chunk_log)]) :
            TripleGrp(t) = emitted[k].grp =>
              /\ used_cache[t[1]] # None =>
                   /\ emitted[k].subject = used_cache[t[1]].id.identifier
                   /\ emitted[k].subject # t[1]
              /\ used_cache[t[3]] # None =>
                   /\ emitted[k].object = used_cache[t[3]].id.identifier
                   /\ emitted[k].object # t[3]
              /\ EdgeEntry(output_mode, emitted[k].subject,
                           emitted[k].relation, emitted[k].object)
                   \in final_edge_set
    /\ \A e \in final_edge_set :
         LET text == Tail(e) IN
         \A id \in Ids :
            answers[id] # None =>
              /\ text[2] # id
              /\ text[IF output_mode = "json" THEN 6 ELSE 8] # id

\* C18 witness: the last chunk added an edge between two canonical ids
C18_Witness ==
    /\ pc = "load"
    /\ \E k \in DOMAIN emitted :
         emitted[k].subject = "N1" /\ emitted[k].object = "N2"


\* C25: every node fragment and every edge-relation fragment is handed to
\* write_out_data in exactly one call: the lists handed over hold the
\* fragments of the chunk just parsed and no others, and after the call has
\* returned both lists are empty.
C25_FragmentsConsumedOnce ==
    /\ chunk_log # <<>> =>
         node_list0 = ParseNodes(chunk_log[Len(chunk_log)])
    /\ pc = "load" => node_list = <<>> /\ edge_list = <<>>

\* C25 witness: a second chunk of two triples has been written out after a
\* first one
C25_Witness ==
    /\ pc = "load"
    /\ Len(chunk_log) = 2
    /\ Len(node_list0) = 4
    /\ node_list = <<>>

\* the list of categories and the list of equivalent identifiers of the node
\* with raw id: those of its record, none for an Unresolved node
NodeCategories(id) ==
    IF answers[id] = None THEN <<>> ELSE RecordTypes(answers[id])

NodeEquivalents(id) ==
    IF answers[id] = None THEN <<>> ELSE RecordEquivalents(answers[id])

\* a list of strings as a list of one-token texts
AsTexts(list) == [k \in DOMAIN list |-> <<list[k]>>]

\* C26: round trip. Splitting the tsv row of a node on tabs, and its category
\* and equivalent_identifiers fields on '|', recovers the node's id, name,
\* list of categories and list of equivalent identifiers, also for an
\* Unresolved node, whose lists are empty.
C26_TsvRoundTrip ==
    (output_mode = "tsv" /\ pc = "load") =>
      \A id \in IdsOf(chunk_log) :
         LET text == NodeText("tsv", RowOf(id))
             fields == Split(text, "\t")
         IN /\ text \in final_node_set
            /\ Len(fields) = 4
            /\ fields[1] = <<RowOf(id).id>>
            /\ fields[2] = <<RowOf(id).name>>
            /\ Split(fields[3], "|") = AsTexts(NodeCategories(id))
            /\ Split(fields[4], "|") = AsTexts(NodeEquivalents(id))

\* the id a node entry carries
NodeEntryId(n) == n[IF output_mode = "json" THEN 2 ELSE 1]

\* C30: no two entries of the final node output share the same id, also when
\* several raw ids resolve to the same canonical identifier.
C30_OneRowPerId ==
    pc = "load" =>
      \A n1, n2 \in final_node_set :
         NodeEntryId(n1) = NodeEntryId(n2) => n1 = n2

\* the columns the tsv edge file header declares
EdgeHeader ==
    <<"id", "subject", "relation", "edge_label", "object", "source_database">>

\* the tab-separated fields of a tsv edge entry (the digest is hexadecimal
\* and holds no tab)
RowFields(e) ==
    LET parts == Split(Tail(e), "\t")
    IN <<<<Head(e)>> \o parts[1]>> \o Tail(parts)

\* C23 as claimed: in tsv mode the first tab-separated field of every edge
\* row is empty.
C23_IdColumnEmpty ==
    output_mode = "tsv" =>
      \A e \in final_edge_set : RowFields(e)[1] = <<>>

\* C23 as amended: in tsv mode every edge row has one field per header
\* column; the first one, under id, is the md5 digest of the rest of the row
\* (the leading tab and the five other fields), and the others are subject,
\* relation, edge_label (the relation again), object and source_database.
C23_IdColumnIsDigest ==
    output_mode = "tsv" =>
      \A e \in final_edge_set :
         /\ Len(RowFields(e)) = Len(EdgeHeader)
         /\ RowFields(e)[1] = <<Md5(Tail(e))>>
         /\ \A k \in 2..Len(EdgeHeader) : Len(RowFields(e)[k]) = 1
         /\ RowFields(e)[3] = RowFields(e)[4]
         /\ RowFields(e)[6] = <<DataSourceName>>
         /\ \E t \in TriplesOf(chunk_log) :
              /\ RowFields(e)[2] = <<EdgeContent(t)[1]>>
              /\ RowFields(e)[3] = <<EdgeContent(t)[2]>>
              /\ RowFields(e)[5] = <<EdgeContent(t)[3]>>

\* C23 witness: tsv rows were added by two chunks
C23_Witness ==
    /\ output_mode = "tsv"
    /\ pc = "load"
    /\ Len(chunk_log) = 2
    /\ Cardinality(final_edge_set) >= 2

\* the entry begins with the digest of its text
StartsWithDigest(e) == Head(e) = Md5(Tail(e))

\* C24: in json mode every entry added to final_edge_set is a well-formed
\* edge object: it opens with '{', closes with '}' and carries the members
\* subject, relation, object, edge_label and source_database.
C24_WellFormedEdgeObject ==
    output_mode = "json" =>
      \A e \in final_edge_set :
         /\ ~StartsWithDigest(e) /\ Head(e) = "{"
         /\ e[Len(e)] = "\"}"
         /\ \E t \in TriplesOf(chunk_log) :
              Tail(e) = EdgeText("json", EdgeContent(t)[1],
                                 EdgeContent(t)[2], EdgeContent(t)[3])

-----------------------------------------------------------------------------
(* Two normalize_node_data calls that run concurrently on one shared cache *)

\* the two concurrent calls
Threads == {1, 2}

\* the lists of ids the two calls may be given: non-empty, without repeats
\* and disjoint
DisjointInputs ==
    {f \in [Threads -> SeqsUpTo(Ids, Cardinality(Ids) - 1)] :
        /\ \A i \in Threads :
             Len(f[i]) > 0 /\ Cardinality(Range(f[i])) = Len(f[i])
        /\ Range(f[1]) \cap Range(f[2]) = {}}

InitConc ==
    /\ pc = "conc"
    /\ node_list = <<>>
    /\ caller_cache = <<>>
    /\ cached_node_norms = <<>>
    /\ aliased = TRUE
    /\ to_normalize = <<>>
    /\ start_index = 0
    /\ calls = 0
    /\ node_list0 = <<>>
    /\ keys0 = {}
    /\ requests = <<>>
    /\ sent_before = {}
    /\ EdgeIdle
    /\ LoadIdle
    /\ once = <<>>
    /\ OthersIdle
    /\ t_ids \in DisjointInputs
    /\ t_pc = [i \in Threads |-> -1]
    /\ t_cache = [i \in Threads |-> <<>>]
    /\ t_aliased = [i \in Threads |-> TRUE]

\* the dict the local name cached_node_norms of call i is bound to
BoundDict(i) == IF t_aliased[i] THEN caller_cache ELSE t_cache[i]

\* call i enters and runs its first loop: none of its ids is a key of the
\* shared dict (the other call adds keys for its own ids only), so
\* list(tmp_normalize) holds them all
TStart(i) ==
    /\ t_pc[i] = -1
    /\ t_pc' = [t_pc EXCEPT ![i] = 0]
    /\ UNCHANGED <<fdbVars, goaVars, pc, node_list, normVars, edgeVars, loadVars, histVars,
                   t_ids, t_cache, t_aliased>>

\* a chunk request of call i is answered with status 200: the local name is
\* bound to a new merged dict
TChunk200(i) ==
    /\ t_pc[i] >= 0
    /\ t_pc[i] < Len(t_ids[i])
    /\ \E rvs \in Payloads(DataChunk(t_ids[i], t_pc[i])) :
         t_cache' = [t_cache EXCEPT ![i] = Merged(BoundDict(i), rvs)]
    /\ t_aliased' = [t_aliased EXCEPT ![i] = FALSE]
    /\ t_pc' = [t_pc EXCEPT ![i] = @ + ChunkSize]
    /\ UNCHANGED <<fdbVars, goaVars, pc, node_list, normVars, edgeVars, loadVars, histVars,
                   t_ids>>

\* a chunk request of call i is answered with another status: the ids of the
\* chunk are set to None in the dict the local name is bound to
TChunkNon200(i) ==
    /\ t_pc[i] >= 0
    /\ t_pc[i] < Len(t_ids[i])
    /\ LET data_chunk == DataChunk(t_ids[i], t_pc[i]) IN
         IF t_aliased[i]
         THEN /\ caller_cache' = MarkUnresolved(caller_cache, data_chunk)
              /\ UNCHANGED t_cache
         ELSE /\ t_cache' = [t_cache EXCEPT
                               ![i] = MarkUnresolved(@, data_chunk)]
              /\ UNCHANGED caller_cache
    /\ t_pc' = [t_pc EXCEPT ![i] = @ + ChunkSize]
    /\ UNCHANGED <<fdbVars, goaVars, pc, node_list, cached_node_norms, aliased, to_normalize,
                   start_index, calls, node_list0, keys0, requests,
                   sent_before, edgeVars, loadVars, histVars, t_ids,
                   t_aliased>>

NextConc ==
    \E i \in Threads :
       \/ TStart(i)
       \/ TChunk200(i)
       \/ TChunkNon200(i)

SpecConc == InitConc /\ [][NextConc]_vars

\* both calls have left their chunk loop
BothDone == \A i \in Threads : t_pc[i] >= Len(t_ids[i])

\* C19: after two concurrent calls over disjoint ids have finished, whatever
\* the interleaving of their steps, the shared cache holds an entry for every
\* id that either call submitted.
C19_NoLostResults ==
    BothDone =>
      \A i \in Threads : Range(t_ids[i]) \subseteq DOMAIN caller_cache


-----------------------------------------------------------------------------
(* FDBLoader.parse_data *)

\* number of compound records lookup_food() returns
MaxRecords == 2

\* a column value that is not NULL
Some(v) == [val |-> v]

\* the rows lookup_food() can return: two foods, a taxonomy id that may be
\* NULL, an inchikey that may be NULL or lack its '=' and a smiles value that
\* may be NULL
CompoundRows ==
    [food_id : {1, 2},
     ncbi_taxonomy_id : {None, Some(9606)},
     inchikey : {None, Some(<<"InChIKey", "=", "K">>), Some(<<"K">>)},
     smiles : {None, Some("S")},
     content_unit : {None},
     content_max : {Some(5)}]

\* the food node of a row; int(None) raises TypeError
FoodNodeRaises(rec) == rec.ncbi_taxonomy_id = None

FoodNode(rec, nutrient) ==
    [id |-> <<"NCBITaxon:", rec.ncbi_taxonomy_id.val>>,
     foodb_id |-> rec.food_id, content_type |-> "food",
     nutrient |-> nutrient]

\* inchikey.split("=")[1] raises IndexError when there is no second part
EquivalentIdRaises(rec) ==
    rec.inchikey # None /\ Len(Split(rec.inchikey.val, "=")) < 2

\* the equivalent id of a row, in order of priority, or None
EquivalentId(rec) ==
    IF rec.inchikey # None
    THEN Some(<<"INCHIKEY:">> \o Split(rec.inchikey.val, "=")[2])
    ELSE IF rec.smiles # None THEN Some(<<"SMILES:", rec.smiles.val>>)
    ELSE None

\* whether a row can be used: it has an inchikey or a smiles value
Usable(rec) == EquivalentId(rec) # None

\* the compound node of a usable row
CompoundNode(rec) ==
    [id |-> EquivalentId(rec).val, foodb_id |-> rec.food_id,
     content_type |-> "compound",
     unit |-> IF rec.content_unit # None THEN rec.content_unit.val ELSE "",
     amount |-> IF rec.content_max # None THEN rec.content_max.val ELSE ""]

\* the edges from the food node at the head of a compound list to the rest
\* of it; compound_list[0] raises IndexError on an empty list
FoodEdges(cl) ==
    [k \in 1..(Len(cl) - 1) |->
        [subject |-> cl[1].id, predicate |-> "biolink:related_to",
         relation |-> "RO:0001019", object |-> cl[k + 1].id,
         unit |-> cl[k + 1].unit, amount |-> cl[k + 1].amount]]

\* parse_data is entered with what lookup_food() returned: None or a list of
\* rows
InitFDB ==
    /\ pc = "parse"
    /\ node_list = <<>>
    /\ caller_cache = <<>>
    /\ cached_node_norms = <<>>
    /\ aliased = TRUE
    /\ to_normalize = <<>>
    /\ start_index = 0
    /\ calls = 0
    /\ node_list0 = <<>>
    /\ keys0 = {}
    /\ requests = <<>>
    /\ sent_before = {}
    /\ EdgeIdle
    /\ LoadIdle
    /\ ConcIdle
    /\ once = <<>>
    /\ GoaIdle
    /\ compound_records \in
         {None} \cup {Some(rows) : rows \in SeqsUpTo(CompoundRows, MaxRecords)}
    /\ record_counter = 0
    /\ skipped_record_counter = 0
    /\ compound_list = <<>>
    /\ food_id = None
    /\ final_node_list = <<>>
    /\ final_edge_list = <<>>
    /\ load_metadata = None

\* the row the loop is about to read
NextRow == compound_records.val[record_counter + 1]

\* the loop has a row left to read
MoreRows ==
    /\ pc = "parse"
    /\ compound_records # None
    /\ record_counter < Len(compound_records.val)

\* the food of the row differs from the current one (after the first row has
\* primed food_id)
FoodChanges(rec) == ~first /\ food_id # Some(rec.food_id)

\* the loop body raises: TypeError of int(None) for a food node, or
\* IndexError of the inchikey split
RowRaises(rec) ==
    \/ (first \/ FoodChanges(rec)) /\ FoodNodeRaises(rec)
    \/ EquivalentIdRaises(rec)

otherFdbVars == <<node_list, normVars, edgeVars, loadVars, concVars,
                  histVars, goaVars>>

\* one pass of the loop body that does not raise
ParseRow ==
    /\ MoreRows
    /\ ~RowRaises(NextRow)
    /\ LET rec == NextRow
           saved == IF FoodChanges(rec) THEN compound_list ELSE <<>>
           started == IF first THEN <<FoodNode(rec, "false")>>
                      ELSE IF FoodChanges(rec) THEN <<FoodNode(rec, "")>>
                      ELSE compound_list
       IN /\ final_node_list' = final_node_list \o saved
          /\ final_edge_list' = final_edge_list \o FoodEdges(saved)
          /\ compound_list' = IF Usable(rec)
                              THEN Append(started, CompoundNode(rec))
                              ELSE started
          /\ skipped_record_counter' =
               IF Usable(rec) THEN skipped_record_counter
               ELSE skipped_record_counter + 1
          /\ food_id' = Some(rec.food_id)
    /\ record_counter' = record_counter + 1
    /\ first' = FALSE
    /\ UNCHANGED <<pc, compound_records, load_metadata, node_list, normVars,
                   edge_list, output_mode, sorted_nodes, node_idx,
                   cur_grp_name, final_edge_set, total_edges, emitted,
                   loadVars, concVars, histVars, goaVars>>

\* one pass of the loop body that raises: the exception leaves parse_data
\* with what the body did before it
ParseRowRaises ==
    /\ MoreRows
    /\ RowRaises(NextRow)
    /\ LET rec == NextRow
           atFood == (first \/ FoodChanges(rec)) /\ FoodNodeRaises(rec)
           saved == IF FoodChanges(rec) THEN compound_list ELSE <<>>
       IN /\ final_node_list' = final_node_list \o saved
          /\ final_edge_list' = final_edge_list \o FoodEdges(saved)
          /\ compound_list' =
               IF FoodChanges(rec)
               THEN (IF atFood THEN <<>> ELSE <<FoodNode(rec, "")>>)
               ELSE IF first /\ ~atFood THEN <<FoodNode(rec, "false")>>
               ELSE compound_list
          /\ food_id' = Some(rec.food_id)
          /\ first' = IF first /\ atFood THEN TRUE ELSE FALSE
    /\ record_counter' = record_counter + 1
    /\ pc' = "raised"
    /\ UNCHANGED <<compound_records, skipped_record_counter, load_metadata,
                   node_list, normVars, edge_list, output_mode, sorted_nodes,
                   node_idx, cur_grp_name, final_edge_set, total_edges,
                   emitted, loadVars, concVars, histVars, goaVars>>

\* lookup_food() returned None: the counters are returned as they are
NoRecords ==
    /\ pc = "parse"
    /\ compound_records = None
    /\ load_metadata' = Some([num_source_lines |-> record_counter,
                              unusable_source_lines |-> skipped_record_counter])
    /\ pc' = "returned"
    /\ UNCHANGED <<compound_records, record_counter, skipped_record_counter,
                   compound_list, food_id, final_node_list, final_edge_list,
                   otherFdbVars>>

\* the loop is over: the remainders are saved and the counts are returned
SaveRemainders ==
    /\ pc = "parse"
    /\ compound_records # None
    /\ record_counter = Len(compound_records.val)
    /\ Len(compound_list) > 0
    /\ final_node_list' = final_node_list \o compound_list
    /\ final_edge_list' = final_edge_list \o FoodEdges(compound_list)
    /\ load_metadata' = Some([num_source_lines |-> record_counter,
                              unusable_source_lines |-> skipped_record_counter])
    /\ pc' = "returned"
    /\ UNCHANGED <<compound_records, record_counter, skipped_record_counter,
                   compound_list, food_id, otherFdbVars>>

\* the loop is over with an empty compound list: compound_list[0] raises
\* IndexError
SaveRemaindersRaises ==
    /\ pc = "parse"
    /\ compound_records # None
    /\ record_counter = Len(compound_records.val)
    /\ Len(compound_list) = 0
    /\ pc' = "raised"
    /\ UNCHANGED <<fdbVars, otherFdbVars>>

NextFDB ==
    \/ ParseRow
    \/ ParseRowRaises
    \/ NoRecords
    \/ SaveRemainders
    \/ SaveRemaindersRaises

SpecFDB == InitFDB /\ [][NextFDB]_vars

\* the rows read so far that have neither an inchikey nor a smiles value
UnusableRead ==
    {k \in 1..record_counter :
        compound_records.val[k].inchikey = None
          /\ compound_records.val[k].smiles = None}

\* C22: parse_data completes without raising for every sequence of source
\* records, an empty one and one of unusable records included, and returns
\* num_source_lines = the number of records read and unusable_source_lines =
\* the number of records that have neither an inchikey nor a smiles value.
C22_AlwaysCompletes ==
    /\ pc # "raised"
    /\ pc = "returned" /\ compound_records # None =>
         /\ load_metadata.val.num_source_lines = Len(compound_records.val)
         /\ load_metadata.val.unusable_source_lines
              = Cardinality(UnusableRead)

\* the call is over: it returned or an exception left it
FdbOver == pc \in {"returned", "raised"}

\* the positions at which a maximal run of consecutive rows of one food_id
\* begins
RunStarts(rows) ==
    {k \in DOMAIN rows : k = 1 \/ rows[k - 1].food_id # rows[k].food_id}

\* the position at which the run that holds row k begins
RunStart(rows, k) ==
    CHOOSE j \in RunStarts(rows) :
       j <= k /\ \A i \in RunStarts(rows) : i <= k => i <= j

\* the positions of the rows that have an inchikey or a smiles value
UsableRows(rows) ==
    {k \in DOMAIN rows : rows[k].inchikey # None \/ rows[k].smiles # None}

\* the k-th smallest member of a set of positions
RECURSIVE Nth(_, _)
Nth(S, k) ==
    LET m == CHOOSE x \in S : \A y \in S : x <= y
    IN IF k = 1 THEN m ELSE Nth(S \ {m}, k - 1)

\* the nodes the rows from position k on stand for: a food node where a run
\* begins, then a compound node if the row is usable
RECURSIVE NodesFrom(_, _)
NodesFrom(rows, k) ==
    IF k > Len(rows) THEN <<>>
    ELSE (IF k \in RunStarts(rows)
          THEN <<FoodNode(rows[k], IF k = 1 THEN "false" ELSE "")>>
          ELSE <<>>)
         \o (IF k \in UsableRows(rows) THEN <<CompoundNode(rows[k])>>
             ELSE <<>>)
         \o NodesFrom(rows, k + 1)

\* the appended nodes and edges are those of the runs of the rows: the j-th
\* edge goes from the food node of the run of the j-th usable row to the
\* compound node of that row
AppendedPerRun ==
    LET rows == compound_records.val
        u(j) == Nth(UsableRows(rows), j)
    IN /\ final_node_list = NodesFrom(rows, 1)
       /\ Len(final_edge_list) = Cardinality(UsableRows(rows))
       /\ \A j \in DOMAIN final_edge_list :
            /\ final_edge_list[j].subject
                 = FoodNode(rows[RunStart(rows, u(j))], "").id
            /\ final_edge_list[j].object = CompoundNode(rows[u(j)]).id
       /\ Len(final_edge_list)
            = load_metadata.val.num_source_lines
                - load_metadata.val.unusable_source_lines

\* C32: for a non-empty record sequence parse_data appends, for every maximal
\* run of consecutive records of one food_id, one food node followed by one
\* compound node per usable record of the run, and one edge from the run's
\* food node to each of those compound nodes; the number of edges appended
\* is num_source_lines minus unusable_source_lines.
C32_OneFoodNodePerRun ==
    (FdbOver /\ compound_records # None /\ compound_records.val # <<>>) =>
      LET rows == compound_records.val IN
      /\ Len(SelectSeq(final_node_list,
                       LAMBDA n : n.content_type = "food"))
           = Cardinality(RunStarts(rows))
      /\ Len(final_edge_list) = Cardinality(UsableRows(rows))
      /\ pc = "returned" /\ AppendedPerRun


-----------------------------------------------------------------------------
(* GetData.get_goa_files and pull_via_ftp *)

\* while attempts < 25
AttemptCap == 25

\* length of file_list
MaxGoaFiles == 3

\* number of pull_via_ftp calls followed
MaxPulls == 26

\* get_goa_files is entered with a file list of which some leading files may
\* hold data on disk already, all of them whole
InitGoa ==
    /\ pc = "goa"
    /\ node_list = <<>>
    /\ caller_cache = <<>>
    /\ cached_node_norms = <<>>
    /\ aliased = TRUE
    /\ to_normalize = <<>>
    /\ start_index = 0
    /\ calls = 0
    /\ node_list0 = <<>>
    /\ keys0 = {}
    /\ requests = <<>>
    /\ sent_before = {}
    /\ EdgeIdle
    /\ LoadIdle
    /\ ConcIdle
    /\ once = <<>>
    /\ FdbIdle
    /\ attempts = 0
    /\ target_count \in 0..MaxGoaFiles
    /\ actual_count = 0
    /\ on_disk \in 0..target_count
    /\ partial = {}
    /\ pulls = 0

\* the loop condition holds and the loop was not left by break; attempts is
\* incremented in the except branch of get_goa_files only, which nothing
\* reaches: pull_via_ftp catches every Exception itself
InLoop == pc = "goa" /\ attempts < AttemptCap /\ pulls < MaxPulls

\* target_count != 0 and (target_count == actual_count)
GotAll(actual) == target_count # 0 /\ target_count = actual

otherGoaVars == <<node_list, normVars, edgeVars, loadVars, concVars,
                  histVars, fdbVars>>

\* pull_via_ftp cannot connect (or fails before its file loop): the exception
\* is caught inside pull_via_ftp, which returns file_counter = 0
PullNoConnection ==
    /\ InLoop
    /\ actual_count' = 0
    /\ pulls' = pulls + 1
    /\ pc' = IF GotAll(0) THEN "returned" ELSE "goa"
    /\ UNCHANGED <<attempts, target_count, on_disk, partial, otherGoaVars>>

\* os.path.getsize of a file whose transfer was interrupted: the file was
\* opened with 'wb' and holds what fp.write received before the exception
SizeAfterInterrupt(written_part) == IF written_part THEN 1 ELSE 0

\* pull_via_ftp connects and walks file_list: files that hold data are
\* counted without a transfer, the others are retrieved and counted, until
\* the list ends or a retrieval fails (caught inside pull_via_ftp), before
\* or after part of the file was written
PullFiles ==
    /\ InLoop
    /\ \E reached \in on_disk..target_count :
         /\ actual_count' = reached
         /\ pc' = IF GotAll(reached) THEN "returned" ELSE "goa"
         /\ \/ /\ on_disk' = reached
               /\ UNCHANGED partial
            \/ /\ reached < target_count
               /\ \E written_part \in BOOLEAN :
                    IF SizeAfterInterrupt(written_part) # 0
                    THEN /\ on_disk' = reached + 1
                         /\ partial' = partial \cup {reached + 1}
                    ELSE /\ on_disk' = reached
                         /\ UNCHANGED partial
    /\ pulls' = pulls + 1
    /\ UNCHANGED <<attempts, target_count, otherGoaVars>>

NextGoa ==
    \/ PullNoConnection
    \/ PullFiles

SpecGoa == InitGoa /\ [][NextGoa]_vars

\* C27: get_goa_files is bounded by its attempt cap: for every file list, an
\* empty one included, and every pattern of FTP failures it calls
\* pull_via_ftp at most 25 times.
C27_BoundedByAttemptCap == pulls <= AttemptCap

\* C33: pull_via_ftp never counts a file as retrieved unless its complete
\* content is on disk: a file that an interrupted transfer left short is
\* not among the files counted by a later pull, and get_goa_files returns
\* count = number requested only when every requested file is complete.
C33_CountedOnlyIfComplete ==
    /\ \A f \in partial : f > actual_count
    /\ pc = "returned" /\ GotAll(actual_count) => partial = {}


=============================================================================
